---- MODULE Spec2Model ----
(***************************************************************************)
(* Model of the consumer-group Processor of sequin-go (processor.go):      *)
(* NewProcessor's effective options, Run, fetch, processFromBuffer,        *)
(* processDirectly and processBatch, together with the broker client, the  *)
(* handler and the error sink as the environment.                          *)
(*                                                                         *)
(* golang.org/x/sync v0.8.0 (go.mod) gives the library semantics used:     *)
(*   - errgroup.WithContext: the derived context is done once the parent   *)
(*     is done, a group function returned a non-nil error, or Wait         *)
(*     returned; Wait returns the first non-nil error.                     *)
(*   - semaphore.Weighted.Acquire fails with ctx.Err() when ctx is done,   *)
(*     even if permits are available.                                      *)
(***************************************************************************)
EXTENDS Integers, Sequences, FiniteSets, Bags, TLC

\* ---------------------------------------------------------------- bounds
\* Number of messages the broker holds in a run with prefetching, and in a
\* run without (the single direct loop affords a longer backlog).
MaxMsgsPrefetch == 2
MaxMsgsDirect == 3
\* Largest value tried for each numeric option.
MaxOpt == 2
\* Number of Receive failures (outside cancellation) the broker injects.
MaxRecvErrs == 1

VARIABLES
    opts,           \* p.opts after validate(): effective options
    cancelFired,    \* the caller cancelled the context passed to Run
    groupDone,      \* Run's errgroup cancelled its derived context
    received,       \* history: concatenation of all Receive responses
    msgBuffer,      \* p.msgBuffer, the prefetch channel
    fpc, fmsgs,     \* fetch: position, messages of the response still to send
    ppc, batch,     \* processFromBuffer: position, batch being assembled
    workers,        \* goroutines started by g.Go in processFromBuffer
    semCur,         \* permits held of the semaphore (sem.cur)
    dpc, dmsgs,     \* processDirectly: position, messages of the response
    gErr,           \* first non-nil error recorded by Run's errgroup
    runReturned,    \* Run has returned
    runResult,      \* the value Run returned
    handlerCalls,   \* history: bag of the batches the handler was invoked with
    handlerOK,      \* history: batches whose handler returned nil
    handlerFailed,  \* history: batches whose handler returned an error
    ackCalls,       \* history: bag of the ack_id lists of the Ack calls issued
    ackFailed,      \* history: ack_id lists whose Ack call returned an error
    acked,          \* history: ack_ids of successful Ack calls
    sinkCalls,      \* history: bag of the ErrorHandler invocations
    nackCalls,      \* history: bag of the ack_id lists of the Nack calls issued
    recvErrs,       \* history: failed Receive calls, by the state of ctx
    recvRequests,   \* history: the ReceiveParams of the Receive calls issued
    args,           \* the arguments NewProcessor was called with
    newResult,      \* what NewProcessor returned: <<>> before the call
    formed,         \* history: the batches processFromBuffer handed to
                    \* workers, in the order it formed them
    response,       \* the HTTP exchange Client.request runs into
    reqResult,      \* what Client.request returned: <<>> before the call
    streams,        \* MockClient.streams: id -> *Stream
    mockResult      \* the last MockClient call and what it returned

vars == <<opts, cancelFired, groupDone, received, msgBuffer, fpc, fmsgs, ppc,
          batch, workers, semCur, dpc, dmsgs, gErr, runReturned, runResult,
          handlerCalls, handlerOK, handlerFailed, ackCalls, ackFailed, acked,
          sinkCalls, nackCalls, recvErrs, recvRequests, args, newResult,
          formed, response, reqResult, streams, mockResult>>

ctorVars == <<args, newResult>>
clientVars == <<response, reqResult>>
mockVars == <<streams, mockResult>>
\* What a run of the processor never touches.
offRunVars == <<ctorVars, clientVars, mockVars>>
batchHist == <<handlerCalls, handlerOK, handlerFailed, ackCalls, ackFailed,
               acked>>
hist == <<batchHist, sinkCalls, nackCalls, recvErrs, recvRequests>>
fetchVars == <<fpc, fmsgs>>
dispVars == <<ppc, batch>>
directVars == <<dpc, dmsgs>>
runVars == <<runReturned, runResult>>

\* ------------------------------------------------------------ data model
\* A Message; the processor only reads its AckID.
Message(i) == [AckID |-> i]

\* Errors, by the text the code wraps them in.
ErrNil == "nil"
ErrCtx == "ctx.Err()"
ErrAcquire == "acquiring semaphore: ctx.Err()"
ErrWaitInFlight == "waiting for in-flight processing: ctx.Err()"
ErrHandler == "handler failed: cause"
ErrAck == "acknowledging messages: cause"
ErrReceive == "receiving messages: cause"

\* Prefetching == nil selects direct mode.
Prefetch == opts.Prefetching.present

\* ctx of the stages: the context derived by errgroup.WithContext in Run.
\* processFromBuffer derives one more context from it, whose group never
\* fails (workers return nil) and is never waited on, so both are done at
\* the same moments.
ctxDone == cancelFired \/ groupDone

\* ------------------------------------------------------------ environment
\* The broker hands out each message once, at most batchSize per call.
Backlog == IF Prefetch THEN MaxMsgsPrefetch ELSE MaxMsgsDirect

Remaining == Backlog - Len(received)

Response(k) == [i \in 1..k |-> Message(Len(received) + i)]

Range(f) == {f[i] : i \in DOMAIN f}

MinOf(a, b) == IF a <= b THEN a ELSE b

\* One more occurrence of x in the bag b.
Record(b, x) == b (+) SetToBag({x})

\* Receive calls that failed while the context was not done.
RecvErrCount == recvErrs.live

\* A Receive call may fail when the context is done, or by an injected fault.
MayFailReceive == ctxDone \/ RecvErrCount < MaxRecvErrs

\* ErrorHandler(ctx, msgs, err): recorded as one sink invocation.
Sink(msgs, err) == Record(sinkCalls, [msgs |-> msgs, err |-> err])

\* A failed Receive met with a live context: ErrorHandler(ctx, nil, wrapped).
ReportReceiveError_silent == sinkCalls
ReportReceiveError == Sink(<<>>, ErrReceive)

\* One more failed Receive call, counted by whether ctx was done.
CountRecvErr(done) ==
    IF done THEN [recvErrs EXCEPT !.done = @ + 1]
    ELSE [recvErrs EXCEPT !.live = @ + 1]


\* ---------------------------------------------------------- construction
\* Errors of the constructor: the format of the innermost error, the value
\* formatted into it and the prefixes it was wrapped in, outermost first.
NoErr == [wrap |-> <<>>, text |-> "", got |-> 0]
Errorf(text, got) == [wrap |-> <<>>, text |-> text, got |-> got]
Wrap(prefix, err) == [err EXCEPT !.wrap = <<prefix>> \o @]

\* Values tried for a numeric option given to NewProcessor.
RawSizes == (0 - 1)..MaxOpt

\* ProcessorOptions as the caller fills them in; Prefetching is a pointer.
RawOptions ==
    [MaxBatchSize : RawSizes, FetchBatchSize : RawSizes,
     MaxConcurrent : RawSizes,
     Prefetching : [present : {FALSE}, BufferSize : {0}] \cup
                   [present : {TRUE}, BufferSize : RawSizes]]

\* The arguments of NewProcessor; "nil" and "" are the rejected values.
Arguments ==
    [client : {"nil", "client"}, consumerGroup : {"", "test-group"},
     handler : {"nil", "handler"}, opts : RawOptions]

\* PrefetchingOptions.validate
PrefetchingValidate_negativeOnly(o) ==
    IF o.BufferSize < 0
      THEN Errorf("BufferSize must be > 0, got %d", o.BufferSize)
      ELSE NoErr
PrefetchingValidate(o) ==
    IF o.BufferSize <= 0
      THEN Errorf("BufferSize must be > 0, got %d", o.BufferSize)
      ELSE NoErr

\* The default of FetchBatchSize, read when MaxBatchSize has its default.
DefaultFetchBatchSize_one(o) == 1
DefaultFetchBatchSize(o) == o.MaxBatchSize

\* ProcessorOptions.validate: checks and defaults field by field, in the
\* order of the code; gives the error and the options as it leaves them.
validate(o) ==
    IF o.MaxBatchSize < 0
      THEN [err |-> Errorf("MaxBatchSize must be >= 0, got %d",
                           o.MaxBatchSize),
            opts |-> o]
    ELSE LET o1 == IF o.MaxBatchSize = 0
                     THEN [o EXCEPT !.MaxBatchSize = 1] ELSE o IN
    IF o1.FetchBatchSize < 0
      THEN [err |-> Errorf("FetchBatchSize must be >= 0, got %d",
                           o1.FetchBatchSize),
            opts |-> o1]
    ELSE LET o2 == IF o1.FetchBatchSize = 0
                     THEN [o1 EXCEPT
                             !.FetchBatchSize = DefaultFetchBatchSize(o1)]
                     ELSE o1 IN
    IF o2.MaxConcurrent < 0
      THEN [err |-> Errorf("MaxConcurrent must be >= 0, got %d",
                           o2.MaxConcurrent),
            opts |-> o2]
    ELSE LET o3 == IF o2.MaxConcurrent = 0
                     THEN [o2 EXCEPT !.MaxConcurrent = 1] ELSE o2 IN
    IF o3.Prefetching.present /\ PrefetchingValidate(o3.Prefetching) # NoErr
      THEN [err |-> Wrap("invalid prefetching options: %w",
                         PrefetchingValidate(o3.Prefetching)),
            opts |-> o3]
    ELSE [err |-> NoErr, opts |-> o3]

\* The nil and empty checks at the head of NewProcessor.
CheckArguments_handlerFirst(a) ==
    IF a.handler = "nil" THEN Errorf("handler cannot be nil", 0)
    ELSE IF a.consumerGroup = ""
      THEN Errorf("consumer group cannot be empty", 0)
    ELSE IF a.client = "nil" THEN Errorf("client cannot be nil", 0)
    ELSE NoErr
CheckArguments(a) ==
    IF a.client = "nil" THEN Errorf("client cannot be nil", 0)
    ELSE IF a.consumerGroup = ""
      THEN Errorf("consumer group cannot be empty", 0)
    ELSE IF a.handler = "nil" THEN Errorf("handler cannot be nil", 0)
    ELSE NoErr

\* NewProcessor(client, consumerGroup, handler, opts): p is <<>> for a nil
\* processor and otherwise holds the one processor built.
NewProcessor(a) ==
    IF CheckArguments(a) # NoErr
      THEN [p |-> <<>>, err |-> CheckArguments(a)]
    ELSE IF validate(a.opts).err # NoErr
      THEN [p |-> <<>>,
            err |-> Wrap("invalid options: %w", validate(a.opts).err)]
    ELSE [p |-> <<[client |-> a.client, consumerGroup |-> a.consumerGroup,
                   handler |-> a.handler, opts |-> validate(a.opts).opts]>>,
          err |-> NoErr]

\* The construction on its own: any arguments, then the call. opts is the
\* options parameter, which validate() rewrites and the processor keeps.
CtorInit ==
    /\ args \in Arguments
    /\ newResult = <<>>
    /\ opts = args.opts
    /\ cancelFired = FALSE
    /\ groupDone = FALSE
    /\ received = <<>>
    /\ msgBuffer = <<>>
    /\ fpc = "idle"
    /\ fmsgs = <<>>
    /\ ppc = "idle"
    /\ batch = <<>>
    /\ workers = {}
    /\ semCur = 0
    /\ dpc = "idle"
    /\ dmsgs = <<>>
    /\ gErr = ErrNil
    /\ runReturned = FALSE
    /\ runResult = ErrNil
    /\ handlerCalls = EmptyBag
    /\ handlerOK = {}
    /\ handlerFailed = {}
    /\ ackCalls = EmptyBag
    /\ ackFailed = {}
    /\ acked = {}
    /\ sinkCalls = EmptyBag
    /\ nackCalls = EmptyBag
    /\ recvErrs = [live |-> 0, done |-> 0]
    /\ recvRequests = {}
    /\ formed = <<>>
    /\ response = <<>>
    /\ reqResult = <<>>
    /\ streams = <<>>
    /\ mockResult = <<>>

Construct ==
    /\ newResult = <<>>
    /\ newResult' = <<NewProcessor(args)>>
    /\ opts' = IF NewProcessor(args).err = NoErr
                 THEN NewProcessor(args).p[1].opts
                 ELSE validate(args.opts).opts
    /\ UNCHANGED <<args, clientVars, mockVars, formed, cancelFired,
                   groupDone, received, msgBuffer, fetchVars, dispVars,
                   workers, semCur, directVars, gErr, runVars, hist>>

CtorNext == Construct

CtorSpec == CtorInit /\ [][CtorNext]_vars

\* The options a Processor can hold once validate() accepted them: every
\* size >= 1, Prefetching nil or with BufferSize >= 1. A run starts from a
\* processor built from arguments that already are its effective options.
EffectiveOptions ==
    [MaxBatchSize : 1..MaxOpt, FetchBatchSize : 1..MaxOpt,
     MaxConcurrent : 1..MaxOpt,
     Prefetching : [present : {FALSE}, BufferSize : {0}] \cup
                   [present : {TRUE}, BufferSize : 1..MaxOpt]]

Init ==
    /\ opts \in EffectiveOptions
    /\ args = [client |-> "client", consumerGroup |-> "test-group",
               handler |-> "handler", opts |-> opts]
    /\ newResult = <<NewProcessor(args)>>
    /\ cancelFired = FALSE
    /\ groupDone = FALSE
    /\ received = <<>>
    /\ msgBuffer = <<>>
    /\ fpc = "idle"
    /\ fmsgs = <<>>
    /\ ppc = "idle"
    /\ batch = <<>>
    /\ workers = {}
    /\ semCur = 0
    /\ dpc = "idle"
    /\ dmsgs = <<>>
    /\ gErr = ErrNil
    /\ runReturned = FALSE
    /\ runResult = ErrNil
    /\ handlerCalls = EmptyBag
    /\ handlerOK = {}
    /\ handlerFailed = {}
    /\ ackCalls = EmptyBag
    /\ ackFailed = {}
    /\ acked = {}
    /\ sinkCalls = EmptyBag
    /\ nackCalls = EmptyBag
    /\ recvErrs = [live |-> 0, done |-> 0]
    /\ recvRequests = {}
    /\ formed = <<>>
    /\ response = <<>>
    /\ reqResult = <<>>
    /\ streams = <<>>
    /\ mockResult = <<>>

\* The caller cancels the context it passed to Run.
Cancel ==
    /\ ~cancelFired
    /\ ~runReturned
    /\ cancelFired' = TRUE
    /\ UNCHANGED <<offRunVars, formed, opts, groupDone, received, msgBuffer, fetchVars, dispVars,
                   workers, semCur, directVars, gErr, runVars, hist>>

\* Run starts its stages: fetch and processFromBuffer with prefetching,
\* processDirectly without.
RunStart ==
    /\ fpc = "idle" /\ ppc = "idle" /\ dpc = "idle"
    /\ fpc' = IF Prefetch THEN "check" ELSE "off"
    /\ ppc' = IF Prefetch THEN "fill" ELSE "off"
    /\ dpc' = IF Prefetch THEN "off" ELSE "check"
    /\ UNCHANGED <<offRunVars, formed, opts, cancelFired, groupDone, received, msgBuffer, fmsgs,
                   batch, workers, semCur, dmsgs, gErr, runVars, hist>>

\* A function of Run's errgroup returns err: the first non-nil error is
\* kept and cancels the group's context.
GroupReturn(err) ==
    /\ gErr' = IF err # ErrNil /\ gErr = ErrNil THEN err ELSE gErr
    /\ groupDone' = (groupDone \/ err # ErrNil)

\* ------------------------------------------------------------------ fetch
\* Capacity of p.msgBuffer: make(chan Message, BufferSize).
BufferCap_plus1 == opts.Prefetching.BufferSize + 1
BufferCap == opts.Prefetching.BufferSize

\* &ReceiveParams{BatchSize: p.opts.FetchBatchSize} of fetch.
FetchParams == [BatchSize |-> opts.FetchBatchSize]

\* Top of the loop: return when ctx is done, else issue Receive.
FetchCheck_whenIdle ==
    /\ fpc = "check"
    /\ workers = {}
    /\ IF ctxDone
         THEN /\ fpc' = "done"
              /\ GroupReturn(ErrCtx)
              /\ UNCHANGED recvRequests
         ELSE /\ fpc' = "recv"
              /\ recvRequests' = recvRequests \cup {FetchParams}
              /\ UNCHANGED <<gErr, groupDone>>
    /\ UNCHANGED <<offRunVars, formed, opts, cancelFired, received, msgBuffer, fmsgs,
                   dispVars, workers, semCur, directVars, runVars, batchHist,
                   sinkCalls, nackCalls, recvErrs>>
FetchCheck ==
    /\ fpc = "check"
    /\ IF ctxDone
         THEN /\ fpc' = "done"
              /\ GroupReturn(ErrCtx)
              /\ UNCHANGED recvRequests
         ELSE /\ fpc' = "recv"
              /\ recvRequests' = recvRequests \cup {FetchParams}
              /\ UNCHANGED <<gErr, groupDone>>
    /\ UNCHANGED <<offRunVars, formed, opts, cancelFired, received, msgBuffer, fmsgs, dispVars,
                   workers, semCur, directVars, runVars, batchHist, sinkCalls,
                   nackCalls, recvErrs>>

\* Receive returned an error: return when ctx is done, else report, continue.
FetchRecvErr ==
    /\ fpc = "recv"
    /\ MayFailReceive
    /\ IF ctxDone
         THEN /\ fpc' = "done"
              /\ GroupReturn(ErrCtx)
              /\ UNCHANGED sinkCalls
         ELSE /\ fpc' = "check"
              /\ sinkCalls' = ReportReceiveError
              /\ UNCHANGED <<gErr, groupDone>>
    /\ recvErrs' = CountRecvErr(ctxDone)
    /\ UNCHANGED <<offRunVars, formed, opts, cancelFired, received, msgBuffer, fmsgs, dispVars,
                   workers, semCur, directVars, runVars, batchHist, nackCalls,
                   recvRequests>>

\* Receive returned k messages, k <= FetchBatchSize.
FetchRecvOK_pipelined ==
    /\ fpc \in {"recv", "send"}
    /\ \E k \in 0..MinOf(FetchParams.BatchSize, Remaining) :
          /\ received' = received \o Response(k)
          /\ fmsgs' = fmsgs \o Response(k)
          /\ fpc' = IF fmsgs \o Response(k) = <<>> THEN "check" ELSE "send"
    /\ UNCHANGED <<offRunVars, formed, opts, cancelFired, groupDone, msgBuffer, dispVars, workers,
                   semCur, directVars, gErr, runVars, hist>>
FetchRecvOK ==
    /\ fpc = "recv"
    /\ \E k \in 0..MinOf(FetchParams.BatchSize, Remaining) :
          /\ received' = received \o Response(k)
          /\ fmsgs' = Response(k)
          /\ fpc' = IF k = 0 THEN "check" ELSE "send"
    /\ UNCHANGED <<offRunVars, formed, opts, cancelFired, groupDone, msgBuffer, dispVars, workers,
                   semCur, directVars, gErr, runVars, hist>>

\* select: p.msgBuffer <- msg, possible while the channel has room.
FetchSend_lifo ==
    /\ fpc = "send"
    /\ Len(msgBuffer) < BufferCap
    /\ msgBuffer' = <<Head(fmsgs)>> \o msgBuffer
    /\ fmsgs' = Tail(fmsgs)
    /\ fpc' = IF Tail(fmsgs) = <<>> THEN "check" ELSE "send"
    /\ UNCHANGED <<offRunVars, formed, opts, cancelFired, groupDone, received,
                   dispVars, workers, semCur, directVars, gErr, runVars, hist>>
FetchSend ==
    /\ fpc = "send"
    /\ Len(msgBuffer) < BufferCap
    /\ msgBuffer' = Append(msgBuffer, Head(fmsgs))
    /\ fmsgs' = Tail(fmsgs)
    /\ fpc' = IF Tail(fmsgs) = <<>> THEN "check" ELSE "send"
    /\ UNCHANGED <<offRunVars, formed, opts, cancelFired, groupDone, received, dispVars, workers,
                   semCur, directVars, gErr, runVars, hist>>

\* select: <-ctx.Done() while sending; the rest of the response is dropped.
FetchSendCancelled ==
    /\ fpc = "send"
    /\ ctxDone
    /\ fpc' = "done"
    /\ GroupReturn(ErrCtx)
    /\ UNCHANGED <<offRunVars, formed, opts, cancelFired, received, msgBuffer, fmsgs, dispVars,
                   workers, semCur, directVars, runVars, hist>>

\* ----------------------------------------------------------- processBatch
\* What processBatch does once the handler returned: a handler error is
\* returned wrapped, otherwise the batch is acknowledged.
AfterHandler_ackAnyway(failed) == "ack"
AfterHandler(failed) == IF failed THEN "return" ELSE "ack"

\* The Nack calls once a batch failed with ack_ids ids (handler error or Ack
\* error): processBatch and its callers only wrap and report the error.
NackAfterFailure_auto(ids) == Record(nackCalls, ids)
NackAfterFailure(ids) == nackCalls

\* The ack_ids of a batch, in batch order.
AckIDs_dropLast(msgs) == [i \in 1..(Len(msgs) - 1) |-> msgs[i].AckID]
AckIDs(msgs) == [i \in 1..Len(msgs) |-> msgs[i].AckID]

\* -------------------------------------------------------------- semaphore
\* sem := semaphore.NewWeighted(MaxConcurrent); sem.Acquire(ctx, n) fails
\* when ctx is done, succeeds when n permits are free, blocks otherwise.
SemAcquire_unbounded(done, n) == IF done THEN "err" ELSE "ok"
SemAcquire_exclusive(done, n) ==
    IF done THEN "err" ELSE IF semCur = 0 THEN "ok" ELSE "block"
SemAcquire_freeFirst(done, n) ==
    IF opts.MaxConcurrent - semCur >= n THEN "ok"
    ELSE IF done THEN "err" ELSE "block"
SemAcquire(done, n) ==
    IF done THEN "err"
    ELSE IF opts.MaxConcurrent - semCur >= n THEN "ok" ELSE "block"

\* sem.Release(n): the permits held afterwards.
SemRelease_leak(n) == semCur
SemRelease(n) == semCur - n

\* ------------------------------------------------------ processFromBuffer
\* Loop condition of the batch filling loop.
BatchHasRoom_offByOne(b) == Len(b) <= opts.MaxBatchSize
BatchHasRoom(b) == Len(b) < opts.MaxBatchSize

\* batch := make([]Message, 0, MaxBatchSize) at the top of every iteration.
NewBatch_reuse(old) == old
NewBatch(old) == <<>>

DispReturn(err) ==
    /\ ppc' = "done"
    /\ GroupReturn(err)
    /\ UNCHANGED <<offRunVars, formed, opts, cancelFired, received, msgBuffer, batch, fetchVars,
                   workers, semCur, directVars, runVars, hist>>

\* select in the filling loop: <-ctx.Done().
DispFillCancelled ==
    /\ ppc = "fill"
    /\ BatchHasRoom(batch)
    /\ ctxDone
    /\ DispReturn(ErrCtx)

\* select in the filling loop: msg := <-p.msgBuffer.
DispFillTake_peek ==
    /\ ppc = "fill"
    /\ BatchHasRoom(batch)
    /\ msgBuffer # <<>>
    /\ batch' = Append(batch, Head(msgBuffer))
    /\ UNCHANGED <<offRunVars, formed, opts, cancelFired, groupDone, received, fetchVars, ppc,
                   msgBuffer, workers, semCur, directVars, gErr, runVars, hist>>
DispFillTake ==
    /\ ppc = "fill"
    /\ BatchHasRoom(batch)
    /\ msgBuffer # <<>>
    /\ batch' = Append(batch, Head(msgBuffer))
    /\ msgBuffer' = Tail(msgBuffer)
    /\ UNCHANGED <<offRunVars, formed, opts, cancelFired, groupDone, received, fetchVars, ppc,
                   workers, semCur, directVars, gErr, runVars, hist>>

\* The batch is full, or select took default (nothing ready): ProcessBatch.
\* An empty batch then waits for one message.
DispProcessBatch_waitToFill ==
    /\ ppc = "fill"
    /\ \/ ~BatchHasRoom(batch)
       \/ ~ctxDone /\ msgBuffer = <<>>
    /\ ppc' = IF BatchHasRoom(batch) THEN "wait" ELSE "acquire"
    /\ UNCHANGED <<offRunVars, formed, opts, cancelFired, groupDone, received, msgBuffer, batch,
                   fetchVars, workers, semCur, directVars, gErr, runVars, hist>>
DispProcessBatch ==
    /\ ppc = "fill"
    /\ \/ ~BatchHasRoom(batch)
       \/ ~ctxDone /\ msgBuffer = <<>>
    /\ ppc' = IF Len(batch) = 0 THEN "wait" ELSE "acquire"
    /\ UNCHANGED <<offRunVars, formed, opts, cancelFired, groupDone, received, msgBuffer, batch,
                   fetchVars, workers, semCur, directVars, gErr, runVars, hist>>

\* Blocking select of an empty batch: <-ctx.Done().
DispWaitCancelled_deaf == FALSE /\ UNCHANGED vars
DispWaitCancelled ==
    /\ ppc = "wait"
    /\ ctxDone
    /\ DispReturn(ErrCtx)

\* Blocking select of an empty batch: msg := <-p.msgBuffer.
DispWaitTake ==
    /\ ppc = "wait"
    /\ msgBuffer # <<>>
    /\ batch' = Append(batch, Head(msgBuffer))
    /\ msgBuffer' = Tail(msgBuffer)
    /\ ppc' = "acquire"
    /\ UNCHANGED <<offRunVars, formed, opts, cancelFired, groupDone, received, fetchVars, workers,
                   semCur, directVars, gErr, runVars, hist>>

\* sem.Acquire(ctx, 1) failed.
DispAcquireFailed ==
    /\ ppc = "acquire"
    /\ SemAcquire(ctxDone, 1) = "err"
    /\ DispReturn(ErrAcquire)

\* sem.Acquire(ctx, 1) succeeded: g.Go starts a worker on batchCopy and the
\* loop starts a new batch.
DispSpawn ==
    /\ ppc = "acquire"
    /\ SemAcquire(ctxDone, 1) = "ok"
    /\ semCur' = semCur + 1
    /\ workers' = workers \cup {[msgs |-> batch, pc |-> "start"]}
    /\ formed' = Append(formed, batch)
    /\ batch' = NewBatch(batch)
    /\ ppc' = "fill"
    /\ UNCHANGED <<offRunVars, opts, cancelFired, groupDone, received, msgBuffer,
                   fetchVars, directVars, gErr, runVars, hist>>

\* --------------------------------------------------------------- workers
\* The worker goroutine calls processBatch, which invokes the handler.
WorkerStart ==
    \E w \in workers :
        /\ w.pc = "start"
        /\ workers' = (workers \ {w}) \cup {[w EXCEPT !.pc = "handler"]}
        /\ handlerCalls' = Record(handlerCalls, w.msgs)
        /\ UNCHANGED <<offRunVars, formed, opts, cancelFired, groupDone, received, msgBuffer,
                       fetchVars, dispVars, semCur, directVars, gErr, runVars,
                       handlerOK, handlerFailed, ackCalls, ackFailed, acked,
                       sinkCalls, nackCalls, recvErrs, recvRequests>>

\* The handler returns; on success processBatch issues the Ack call, on
\* failure the worker reports the batch and releases its permit.
WorkerHandlerReturn_keepPermit ==
    \E w \in workers, failed \in BOOLEAN :
        /\ w.pc = "handler"
        /\ handlerOK' = IF failed THEN handlerOK ELSE handlerOK \cup {w.msgs}
        /\ handlerFailed' =
              IF failed THEN handlerFailed \cup {w.msgs} ELSE handlerFailed
        /\ IF AfterHandler(failed) = "ack"
             THEN /\ workers' = (workers \ {w}) \cup {[w EXCEPT !.pc = "ack"]}
                  /\ ackCalls' = Record(ackCalls, AckIDs(w.msgs))
                  /\ UNCHANGED <<sinkCalls, nackCalls, semCur>>
             ELSE /\ workers' = workers \ {w}
                  /\ sinkCalls' = Sink(w.msgs, ErrHandler)
                  /\ nackCalls' = NackAfterFailure(AckIDs(w.msgs))
                  /\ UNCHANGED <<ackCalls, semCur>>
        /\ UNCHANGED <<offRunVars, formed, opts, cancelFired, groupDone, received, msgBuffer,
                       fetchVars, dispVars, directVars, gErr, runVars,
                       handlerCalls, ackFailed, acked, recvErrs, recvRequests>>
WorkerHandlerReturn ==
    \E w \in workers, failed \in BOOLEAN :
        /\ w.pc = "handler"
        /\ handlerOK' = IF failed THEN handlerOK ELSE handlerOK \cup {w.msgs}
        /\ handlerFailed' =
              IF failed THEN handlerFailed \cup {w.msgs} ELSE handlerFailed
        /\ IF AfterHandler(failed) = "ack"
             THEN /\ workers' = (workers \ {w}) \cup {[w EXCEPT !.pc = "ack"]}
                  /\ ackCalls' = Record(ackCalls, AckIDs(w.msgs))
                  /\ UNCHANGED <<sinkCalls, nackCalls, semCur>>
             ELSE /\ workers' = workers \ {w}
                  /\ sinkCalls' = Sink(w.msgs, ErrHandler)
                  /\ nackCalls' = NackAfterFailure(AckIDs(w.msgs))
                  /\ semCur' = SemRelease(1)
                  /\ UNCHANGED ackCalls
        /\ UNCHANGED <<offRunVars, formed, opts, cancelFired, groupDone, received, msgBuffer,
                       fetchVars, dispVars, directVars, gErr, runVars,
                       handlerCalls, ackFailed, acked, recvErrs, recvRequests>>

\* The Ack call returns; a failure is reported; the permit is released.
WorkerAckReturn ==
    \E w \in workers, failed \in BOOLEAN :
        /\ w.pc = "ack"
        /\ workers' = workers \ {w}
        /\ semCur' = SemRelease(1)
        /\ IF failed
             THEN /\ sinkCalls' = Sink(w.msgs, ErrAck)
                  /\ nackCalls' = NackAfterFailure(AckIDs(w.msgs))
                  /\ ackFailed' = ackFailed \cup {AckIDs(w.msgs)}
                  /\ UNCHANGED acked
             ELSE /\ acked' = acked \cup Range(AckIDs(w.msgs))
                  /\ UNCHANGED <<sinkCalls, nackCalls, ackFailed>>
        /\ UNCHANGED <<offRunVars, formed, opts, cancelFired, groupDone, received, msgBuffer,
                       fetchVars, dispVars, directVars, gErr, runVars,
                       handlerCalls, handlerOK, handlerFailed, ackCalls,
                       recvErrs, recvRequests>>

\* -------------------------------------------------------- processDirectly
\* messagesCopy := make([]Message, len(messages)); copy(messagesCopy, messages)
messagesCopy_short(messages) == SubSeq(messages, 1, Len(messages) - 1)
messagesCopy(messages) == messages

\* "Exit after processing all messages": fewer messages than MaxBatchSize.
Drained_orFull(n) == n <= opts.MaxBatchSize
Drained(n) == n < opts.MaxBatchSize

DirectReturn(err) ==
    /\ dpc' = "done"
    /\ GroupReturn(err)

\* &ReceiveParams{BatchSize: p.opts.MaxBatchSize} of processDirectly.
DirectParams_fetchSize == [BatchSize |-> opts.FetchBatchSize]
DirectParams == [BatchSize |-> opts.MaxBatchSize]

\* Top of the loop: when ctx is done, acquire all permits and return;
\* otherwise issue Receive.
DirectCheck ==
    /\ dpc = "check"
    /\ IF ctxDone
         THEN /\ SemAcquire(ctxDone, opts.MaxConcurrent) # "block"
              /\ IF SemAcquire(ctxDone, opts.MaxConcurrent) = "err"
                   THEN DirectReturn(ErrWaitInFlight)
                   ELSE DirectReturn(ErrCtx)
              /\ UNCHANGED recvRequests
         ELSE /\ dpc' = "recv"
              /\ recvRequests' = recvRequests \cup {DirectParams}
              /\ UNCHANGED <<gErr, groupDone>>
    /\ UNCHANGED <<offRunVars, formed, opts, cancelFired, received, msgBuffer, fetchVars,
                   dispVars, workers, semCur, dmsgs, runVars, batchHist,
                   sinkCalls, nackCalls, recvErrs>>

\* Receive returned an error: return when ctx is done, else report, continue.
DirectRecvErr_reportFirst ==
    /\ dpc = "recv"
    /\ MayFailReceive
    /\ sinkCalls' = ReportReceiveError
    /\ IF ctxDone
         THEN DirectReturn(ErrCtx)
         ELSE /\ dpc' = "check"
              /\ UNCHANGED <<gErr, groupDone>>
    /\ recvErrs' = CountRecvErr(ctxDone)
    /\ UNCHANGED <<offRunVars, formed, opts, cancelFired, received, msgBuffer, fetchVars,
                   dispVars, workers, semCur, dmsgs, runVars, batchHist,
                   nackCalls, recvRequests>>
DirectRecvErr ==
    /\ dpc = "recv"
    /\ MayFailReceive
    /\ IF ctxDone
         THEN /\ DirectReturn(ErrCtx)
              /\ UNCHANGED sinkCalls
         ELSE /\ dpc' = "check"
              /\ sinkCalls' = ReportReceiveError
              /\ UNCHANGED <<gErr, groupDone>>
    /\ recvErrs' = CountRecvErr(ctxDone)
    /\ UNCHANGED <<offRunVars, formed, opts, cancelFired, received, msgBuffer, fetchVars,
                   dispVars, workers, semCur, dmsgs, runVars, batchHist,
                   nackCalls, recvRequests>>

\* Receive returned k messages, k <= MaxBatchSize; an empty response loops.
DirectRecvOK ==
    /\ dpc = "recv"
    /\ \E k \in 0..MinOf(DirectParams.BatchSize, Remaining) :
          /\ received' = received \o Response(k)
          /\ dmsgs' = Response(k)
          /\ dpc' = IF k = 0 THEN "check" ELSE "acquire"
    /\ UNCHANGED <<offRunVars, formed, opts, cancelFired, groupDone, msgBuffer, fetchVars,
                   dispVars, workers, semCur, gErr, runVars, hist>>

\* sem.Acquire(ctx, 1) failed: the loop returns, the response is dropped.
DirectAcquireFailed ==
    /\ dpc = "acquire"
    /\ SemAcquire(ctxDone, 1) = "err"
    /\ DirectReturn(ErrAcquire)
    /\ UNCHANGED <<offRunVars, formed, opts, cancelFired, received, msgBuffer, fetchVars,
                   dispVars, workers, semCur, dmsgs, runVars, hist>>

\* sem.Acquire(ctx, 1) succeeded: processBatch(ctx, messagesCopy) invokes
\* the handler in this goroutine.
DirectAcquire_async ==
    /\ dpc = "acquire"
    /\ SemAcquire(ctxDone, 1) = "ok"
    /\ semCur' = semCur + 1
    /\ workers' = workers \cup {[msgs |-> messagesCopy(dmsgs), pc |-> "start"]}
    /\ dpc' = "check"
    /\ UNCHANGED <<offRunVars, formed, opts, cancelFired, groupDone, received,
                   msgBuffer, fetchVars, dispVars, dmsgs, gErr, runVars, hist>>
DirectAcquire ==
    /\ dpc = "acquire"
    /\ SemAcquire(ctxDone, 1) = "ok"
    /\ semCur' = semCur + 1
    /\ handlerCalls' = Record(handlerCalls, messagesCopy(dmsgs))
    /\ dpc' = "handler"
    /\ UNCHANGED <<offRunVars, formed, opts, cancelFired, groupDone, received, msgBuffer,
                   fetchVars, dispVars, workers, dmsgs, gErr, runVars,
                   handlerOK, handlerFailed, ackCalls, ackFailed, acked,
                   sinkCalls, nackCalls, recvErrs, recvRequests>>

\* processBatch returned err: release the permit; an error returns ctx.Err()
\* when ctx is done and is reported otherwise; after a success the loop
\* returns nil when the response was short. n = len(messages).
DirectAfterBatch_abort(err, n) ==
    /\ semCur' = SemRelease(1)
    /\ nackCalls' = nackCalls
    /\ UNCHANGED sinkCalls
    /\ IF err # ErrNil \/ n < opts.MaxBatchSize
         THEN DirectReturn(err)
         ELSE dpc' = "check" /\ UNCHANGED <<gErr, groupDone>>
DirectAfterBatch_drainFirst(err, n) ==
    /\ semCur' = SemRelease(1)
    /\ IF Drained(n)
         THEN /\ DirectReturn(ErrNil)
              /\ UNCHANGED <<sinkCalls, nackCalls>>
         ELSE /\ dpc' = "check"
              /\ UNCHANGED <<gErr, groupDone>>
              /\ nackCalls' = nackCalls
              /\ sinkCalls' = IF err # ErrNil
                                THEN Sink(messagesCopy(dmsgs), err)
                                ELSE sinkCalls
DirectAfterBatch(err, n) ==
    /\ semCur' = SemRelease(1)
    /\ IF err # ErrNil
         THEN /\ nackCalls' = NackAfterFailure(AckIDs(messagesCopy(dmsgs)))
              /\ IF ctxDone
                   THEN DirectReturn(ErrCtx) /\ UNCHANGED sinkCalls
                   ELSE /\ sinkCalls' = Sink(messagesCopy(dmsgs), err)
                        /\ dpc' = "check"
                        /\ UNCHANGED <<gErr, groupDone>>
         ELSE /\ UNCHANGED <<sinkCalls, nackCalls>>
              /\ IF Drained(n)
                   THEN DirectReturn(ErrNil)
                   ELSE dpc' = "check" /\ UNCHANGED <<gErr, groupDone>>

\* The handler returns; on success processBatch issues the Ack call.
DirectHandlerReturn ==
    /\ dpc = "handler"
    /\ \E failed \in BOOLEAN :
          /\ handlerOK' = IF failed THEN handlerOK
                           ELSE handlerOK \cup {messagesCopy(dmsgs)}
          /\ handlerFailed' = IF failed
                               THEN handlerFailed \cup {messagesCopy(dmsgs)}
                               ELSE handlerFailed
          /\ IF AfterHandler(failed) = "ack"
               THEN /\ dpc' = "ack"
                    /\ ackCalls' = Record(ackCalls, AckIDs(messagesCopy(dmsgs)))
                    /\ UNCHANGED <<semCur, sinkCalls, nackCalls, gErr,
                                   groupDone>>
               ELSE /\ DirectAfterBatch(ErrHandler, Len(dmsgs))
                    /\ UNCHANGED ackCalls
    /\ UNCHANGED <<offRunVars, formed, opts, cancelFired, received, msgBuffer, fetchVars,
                   dispVars, workers, dmsgs, runVars, handlerCalls, ackFailed,
                   acked, recvErrs, recvRequests>>

\* The Ack call returns.
DirectAckReturn ==
    /\ dpc = "ack"
    /\ \E failed \in BOOLEAN :
          IF failed
            THEN /\ ackFailed' = ackFailed \cup {AckIDs(messagesCopy(dmsgs))}
                 /\ DirectAfterBatch(ErrAck, Len(dmsgs))
                 /\ UNCHANGED acked
            ELSE /\ acked' = acked \cup Range(AckIDs(messagesCopy(dmsgs)))
                 /\ DirectAfterBatch(ErrNil, Len(dmsgs))
                 /\ UNCHANGED ackFailed
    /\ UNCHANGED <<offRunVars, formed, opts, cancelFired, received, msgBuffer, fetchVars,
                   dispVars, workers, dmsgs, runVars, handlerCalls, handlerOK,
                   handlerFailed, ackCalls, recvErrs, recvRequests>>

\* -------------------------------------------------------------------- Run
StageDone(pc) == pc \in {"done", "off"}

\* Run returning without g.Wait(): the stages are left running.
RunReturn_noWait ==
    /\ ~runReturned
    /\ dpc # "idle"
    /\ runReturned' = TRUE
    /\ runResult' = ErrNil
    /\ UNCHANGED <<offRunVars, formed, opts, cancelFired, groupDone, received, msgBuffer,
                   fetchVars, dispVars, workers, semCur, directVars, gErr,
                   hist>>

\* g.Wait() returns once every g.Go function of Run has returned, cancels
\* the group's context and gives the first non-nil error.
RunReturn_swallow ==
    /\ ~runReturned
    /\ StageDone(fpc) /\ StageDone(ppc) /\ StageDone(dpc)
    /\ runReturned' = TRUE
    /\ runResult' = ErrNil
    /\ groupDone' = TRUE
    /\ UNCHANGED <<offRunVars, formed, opts, cancelFired, received, msgBuffer, fetchVars,
                   dispVars, workers, semCur, directVars, gErr, hist>>
RunReturn ==
    /\ ~runReturned
    /\ StageDone(fpc) /\ StageDone(ppc) /\ StageDone(dpc)
    /\ runReturned' = TRUE
    /\ runResult' = gErr
    /\ groupDone' = TRUE
    /\ UNCHANGED <<offRunVars, formed, opts, cancelFired, received, msgBuffer, fetchVars,
                   dispVars, workers, semCur, directVars, gErr, hist>>

Next ==
    \/ Cancel
    \/ RunStart
    \/ FetchCheck
    \/ FetchRecvErr
    \/ FetchRecvOK
    \/ FetchSend
    \/ FetchSendCancelled
    \/ DispFillCancelled
    \/ DispFillTake
    \/ DispProcessBatch
    \/ DispWaitCancelled
    \/ DispWaitTake
    \/ DispAcquireFailed
    \/ DispSpawn
    \/ WorkerStart
    \/ WorkerHandlerReturn
    \/ WorkerAckReturn
    \/ DirectCheck
    \/ DirectRecvErr
    \/ DirectRecvOK
    \/ DirectAcquireFailed
    \/ DirectAcquire
    \/ DirectHandlerReturn
    \/ DirectAckReturn
    \/ RunReturn

Spec == Init /\ [][Next]_vars

\* The goroutine of processDirectly: one step of its loop.
DirectStep ==
    \/ DirectCheck
    \/ DirectRecvErr
    \/ DirectRecvOK
    \/ DirectAcquireFailed
    \/ DirectAcquire
    \/ DirectHandlerReturn
    \/ DirectAckReturn

\* The goroutine of fetch: one step of its loop.
FetchStep ==
    \/ FetchCheck
    \/ FetchRecvErr
    \/ FetchRecvOK
    \/ FetchSend
    \/ FetchSendCancelled

\* The goroutine of processFromBuffer: one step of its loop.
DispStep ==
    \/ DispFillCancelled
    \/ DispFillTake
    \/ DispProcessBatch
    \/ DispWaitCancelled
    \/ DispWaitTake
    \/ DispAcquireFailed
    \/ DispSpawn

\* A worker goroutine: one step of processBatch.
WorkerStep ==
    \/ WorkerStart
    \/ WorkerHandlerReturn
    \/ WorkerAckReturn

\* A run under a scheduler that lets Run and each of its goroutines
\* proceed, with Receive, the handler and Ack returning.
LiveSpec ==
    /\ Spec
    /\ WF_vars(RunStart)
    /\ WF_vars(DirectStep)
    /\ WF_vars(FetchStep)
    /\ WF_vars(DispStep)
    /\ WF_vars(WorkerStep)
    /\ WF_vars(RunReturn)

\* ============================================================ Client.request
\* A JSON value inside a response body: its type and, for a string or an
\* object, a token for its content.
Absent == [t |-> "absent", v |-> ""]
JSONNull == [t |-> "null", v |-> ""]
JSONString(s) == [t |-> "string", v |-> s]
JSONNumber == [t |-> "number", v |-> ""]
JSONObject(o) == [t |-> "object", v |-> o]

\* A response body: bytes that are not JSON, a JSON null, array or string,
\* or a JSON object with any of the members the client looks at.
NonObjectBody(kind) ==
    [kind |-> kind, summary |-> Absent, validation_errors |-> Absent,
     code |-> Absent, data |-> Absent]
Bodies ==
    {NonObjectBody(k) : k \in {"invalid", "null", "array", "string"}} \cup
    [kind : {"object"},
     summary : {Absent, JSONNull, JSONString("not found"), JSONNumber},
     validation_errors : {Absent, JSONNull, JSONObject("{}"),
                          JSONObject("{name: [taken]}"), JSONString("bad")},
     code : {Absent, JSONString("not_found"), JSONNumber},
     data : {Absent, JSONObject("{id: 1}")}]

\* Status codes tried.
Statuses == {200, 204, 399, 400, 404, 422, 500}

\* The exchange request() runs into: the step that fails, if any, the
\* status code and the body of the response.
Responses ==
    [fail : {"none", "marshal", "create", "send", "read"},
     status : Statuses, body : Bodies]

\* json.Unmarshal of one object member into a Go field of kind want: an
\* absent member and a null leave the field alone, a value of another JSON
\* type is an UnmarshalTypeError.
FieldFits(v, want) == v.t \in {"absent", "null", want}
FieldValue(v, want, zero) == IF v.t = want THEN v.v ELSE zero

\* json.Unmarshal(responseBody, &errorResponse): err and the struct.
\* Invalid JSON and a top-level array or string fail; a top-level null
\* succeeds and leaves the struct zero; unknown members are ignored.
NilMap == "nil"
UnmarshalErrorResponse(body) ==
    [err |-> \/ body.kind \in {"invalid", "array", "string"}
             \/ ~FieldFits(body.summary, "string")
             \/ ~FieldFits(body.validation_errors, "object")
             \/ ~FieldFits(body.code, "string"),
     Summary |-> FieldValue(body.summary, "string", ""),
     ValidationErrors |-> FieldValue(body.validation_errors, "object", NilMap),
     Code |-> FieldValue(body.code, "string", "")]

\* json.Unmarshal(responseBody, &envelope), Data a json.RawMessage.
UnmarshalEnvelope(body) ==
    [err |-> body.kind \in {"invalid", "array", "string"},
     Data |-> body.data]

\* The errors request() returns: nil, fmt.Errorf values (format, and the
\* summary or status code formatted into it) and *ValidationError.
NilError ==
    [type |-> "nil", format |-> "", status |-> 0, Summary |-> "",
     ValidationErrors |-> NilMap, Code |-> ""]
PlainError(format) == [NilError EXCEPT !.type = "plain", !.format = format]
SummaryError(summary) ==
    [PlainError("API error: %s") EXCEPT !.Summary = summary]
StatusError(status) ==
    [PlainError("API error: status code %d") EXCEPT !.status = status]
ValidationError(e) ==
    [NilError EXCEPT !.type = "ValidationError", !.Summary = e.Summary,
                     !.ValidationErrors = e.ValidationErrors,
                     !.Code = e.Code]

\* The []byte request() returns.
NilBytes == [nil |-> TRUE, bytes |-> ""]
Bytes(b) == [nil |-> FALSE, bytes |-> b]

\* The branch for resp.StatusCode >= 400.
ErrorForStatus(r) ==
    LET errorResponse == UnmarshalErrorResponse(r.body)
    IN IF ~errorResponse.err
         THEN IF errorResponse.ValidationErrors # NilMap
                THEN ValidationError(errorResponse)
                ELSE SummaryError(errorResponse.Summary)
         ELSE StatusError(r.status)

\* request(endpoint, method, body): ([]byte, error).
request(r) ==
    IF r.fail = "marshal"
      THEN [body |-> NilBytes,
            err |-> PlainError("failed to marshal request body: %w")]
    ELSE IF r.fail = "create"
      THEN [body |-> NilBytes,
            err |-> PlainError("failed to create request: %w")]
    ELSE IF r.fail = "send"
      THEN [body |-> NilBytes,
            err |-> PlainError("failed to send request: %w")]
    ELSE IF r.fail = "read"
      THEN [body |-> NilBytes,
            err |-> PlainError("failed to read response body: %w")]
    ELSE IF r.status >= 400
      THEN [body |-> NilBytes, err |-> ErrorForStatus(r)]
    ELSE IF ~UnmarshalEnvelope(r.body).err
            /\ UnmarshalEnvelope(r.body).Data # Absent
      THEN [body |-> Bytes("envelope.Data"), err |-> NilError]
    ELSE [body |-> Bytes("responseBody"), err |-> NilError]

\* The processor's variables while no run is going on.
NoRun ==
    /\ opts = [MaxBatchSize |-> 1, FetchBatchSize |-> 1, MaxConcurrent |-> 1,
               Prefetching |-> [present |-> FALSE, BufferSize |-> 0]]
    /\ args = [client |-> "client", consumerGroup |-> "test-group",
               handler |-> "handler", opts |-> opts]
    /\ newResult = <<NewProcessor(args)>>
    /\ cancelFired = FALSE
    /\ groupDone = FALSE
    /\ received = <<>>
    /\ msgBuffer = <<>>
    /\ fpc = "idle"
    /\ fmsgs = <<>>
    /\ ppc = "idle"
    /\ batch = <<>>
    /\ workers = {}
    /\ semCur = 0
    /\ dpc = "idle"
    /\ dmsgs = <<>>
    /\ gErr = ErrNil
    /\ runReturned = FALSE
    /\ runResult = ErrNil
    /\ handlerCalls = EmptyBag
    /\ handlerOK = {}
    /\ handlerFailed = {}
    /\ ackCalls = EmptyBag
    /\ ackFailed = {}
    /\ acked = {}
    /\ sinkCalls = EmptyBag
    /\ nackCalls = EmptyBag
    /\ recvErrs = [live |-> 0, done |-> 0]
    /\ recvRequests = {}
    /\ formed = <<>>
runState == <<opts, cancelFired, groupDone, received, msgBuffer, fetchVars,
              dispVars, workers, semCur, directVars, gErr, runVars, hist,
              formed>>

\* One call of request on its own: any exchange, then the call.
ReqInit ==
    /\ NoRun
    /\ response \in Responses
    /\ reqResult = <<>>
    /\ streams = <<>>
    /\ mockResult = <<>>

Request ==
    /\ reqResult = <<>>
    /\ reqResult' = <<request(response)>>
    /\ UNCHANGED <<response, ctorVars, mockVars, runState>>

ReqNext == Request

ReqSpec == ReqInit /\ [][ReqNext]_vars
\* ================================================================ MockClient
\* Largest number of streams the mock is made to hold.
MaxStreams == 3
\* Names given to streams, and the ids asked for ("stream-<n>" is n); the
\* last id is one no stream ever has.
StreamNames == {"orders", "events"}
StreamIDs == 1..(MaxStreams + 1)

\* Go's map[string]*Stream: m[k] = v and delete(m, k).
MapPut(m, k, v) == [i \in DOMAIN m \cup {k} |-> IF i = k THEN v ELSE m[i]]
MapDelete(m, k) == [i \in DOMAIN m \ {k} |-> m[i]]
len(m) == Cardinality(DOMAIN m)

\* What a MockClient call returned: the id of the *Stream or DeleteSuccess
\* (0 for a nil result) and the error.
MockReturn(op, id, err) == <<[op |-> op, id |-> id, err |-> err]>>
ErrStreamNotFound == "stream not found"

\* id := fmt.Sprintf("stream-%d", len(m.streams)+1)
NewStreamID == len(streams) + 1

CreateStream ==
    \E name \in StreamNames :
        /\ len(streams) < MaxStreams
        /\ streams' = MapPut(streams, NewStreamID,
                             [ID |-> NewStreamID, Name |-> name])
        /\ mockResult' = MockReturn("CreateStream", NewStreamID, ErrNil)
        /\ UNCHANGED <<ctorVars, clientVars, runState>>

GetStream ==
    \E id \in StreamIDs :
        /\ mockResult' = IF id \in DOMAIN streams
                           THEN MockReturn("GetStream", id, ErrNil)
                           ELSE MockReturn("GetStream", 0, ErrStreamNotFound)
        /\ UNCHANGED <<streams, ctorVars, clientVars, runState>>

UpdateStream ==
    \E id \in StreamIDs, name \in StreamNames :
        /\ IF id \in DOMAIN streams
             THEN /\ streams' = [streams EXCEPT ![id].Name = name]
                  /\ mockResult' = MockReturn("UpdateStream", id, ErrNil)
             ELSE /\ UNCHANGED streams
                  /\ mockResult' =
                        MockReturn("UpdateStream", 0, ErrStreamNotFound)
        /\ UNCHANGED <<ctorVars, clientVars, runState>>

DeleteStream ==
    \E id \in StreamIDs :
        /\ IF id \in DOMAIN streams
             THEN /\ streams' = MapDelete(streams, id)
                  /\ mockResult' = MockReturn("DeleteStream", id, ErrNil)
             ELSE /\ UNCHANGED streams
                  /\ mockResult' =
                        MockReturn("DeleteStream", 0, ErrStreamNotFound)
        /\ UNCHANGED <<ctorVars, clientVars, runState>>

\* NewMockClient(), then any sequence of calls on the streams.
MockInit ==
    /\ NoRun
    /\ response = <<>>
    /\ reqResult = <<>>
    /\ streams = <<>>
    /\ mockResult = <<>>

MockNext ==
    \/ CreateStream
    \/ GetStream
    \/ UpdateStream
    \/ DeleteStream

MockSpec == MockInit /\ [][MockNext]_vars
\* ================================================================ claims
\* Vocabulary of the claims, read off the histories.
IdsOf(b) == {b[i].AckID : i \in DOMAIN b}
IdList(b) == [i \in DOMAIN b |-> b[i].AckID]
ReceivedIds == IdsOf(received)
HandledIds == UNION {IdsOf(b) : b \in BagToSet(handlerCalls)}
AckLists == BagToSet(ackCalls)
Reported(m) == \E s \in BagToSet(sinkCalls) : m \in Range(s.msgs)
HandlersInFlight ==
    Cardinality({w \in workers : w.pc = "handler"})
        + (IF dpc = "handler" THEN 1 ELSE 0)
\* Run has returned and no worker goroutine is left.
Finished == runReturned /\ workers = {}
AllSucceeded == handlerFailed = {} /\ ackFailed = {}

\* C1: once the handler has returned an error for a batch, no Ack call
\* issued by the processor carries an ack_id of that batch (either mode).
C1_NoAckOnHandlerFailure ==
    \A b \in handlerFailed : \A c \in AckLists : IdsOf(b) \cap Range(c) = {}

\* C1 witness: a batch failed in the handler and a later-received batch was
\* acknowledged.
C1_Witness ==
    \E b \in handlerFailed : \E c \in AckLists :
        Len(c) > 0 /\ c[1] > b[Len(b)].AckID

\* C2: every batch whose handler succeeded has exactly one Ack call, whose
\* ack_id list is the batch's ack_ids in batch order, and every Ack call is
\* the list of one such batch (never a part of one, never two mixed).
C2_OneAckPerBatchInOrder ==
    /\ \A b \in handlerOK : CopiesIn(IdList(b), ackCalls) = 1
    /\ \A c \in AckLists : \E b \in handlerOK : c = IdList(b)

\* C2 witness: two batches succeeded, one of them with two messages.
C2_Witness ==
    /\ Cardinality(handlerOK) >= 2
    /\ \E b \in handlerOK : Len(b) >= 2 /\ IdList(b) \in AckLists

\* C3: once Run has returned and every worker has finished, each message
\* that reached the handler has been acked by a successful Ack call or been
\* passed to the error sink in its batch and not acked. (The claim says so
\* of every received message; the messages abandoned before they reach the
\* handler are left out here, so a violation is one of a started batch.)
C3_HandledAckedOrReported ==
    Finished =>
        \A i \in DOMAIN received :
            received[i].AckID \in HandledIds =>
                \/ received[i].AckID \in acked
                \/ Reported(received[i]) /\ received[i].AckID \notin acked

\* C4: no ack_id is passed to Ack more than once: every Ack call is issued
\* once, lists no id twice, and no two Ack calls share an id.
C4_NoDoubleAck ==
    /\ \A c \in AckLists : CopiesIn(c, ackCalls) = 1
    /\ \A c \in AckLists : \A i, j \in DOMAIN c : c[i] = c[j] => i = j
    /\ \A c1, c2 \in AckLists : c1 # c2 => Range(c1) \cap Range(c2) = {}

\* C4 witness: two Ack calls were issued.
C4_Witness == Cardinality(AckLists) >= 2 /\ BagCardinality(ackCalls) >= 2

\* C5 as claimed: in any finished run in which every handler invocation and
\* every Ack call succeeded, the acked ids are the received ids.
C5_AckedEqualsReceived ==
    (Finished /\ AllSucceeded) => acked = ReceivedIds

\* C5 as amended: in such a run the acked ids are the ids of the messages
\* passed to the handler, all of them received; they are all the received
\* ids when Run returned nil (the drained exit of direct mode).
C5_AckAccounting ==
    (Finished /\ AllSucceeded) =>
        /\ acked = HandledIds
        /\ acked \subseteq ReceivedIds
        /\ (runResult = ErrNil => acked = ReceivedIds)

\* C5 witness: Run returned nil after a full batch and a short one.
C5_Witness ==
    /\ Finished /\ AllSucceeded
    /\ runResult = ErrNil
    /\ Cardinality(acked) >= 3
    /\ BagCardinality(ackCalls) >= 2

\* C6: at every instant at most MaxConcurrent handler invocations are in
\* flight.
C6_ConcurrencyBound == HandlersInFlight <= opts.MaxConcurrent

\* C6 witness: MaxConcurrent handlers run while the dispatcher holds one
\* more batch, waiting for a permit.
C6_Witness ==
    /\ ppc = "acquire"
    /\ HandlersInFlight = opts.MaxConcurrent

\* C7: every handler invocation receives between 1 and MaxBatchSize
\* messages.
C7_BatchSizeBound ==
    \A b \in BagToSet(handlerCalls) : 1 <= Len(b) /\ Len(b) <= opts.MaxBatchSize

\* C7 witness: the dispatcher handed over a full batch while more messages
\* were waiting in the buffer.
C7_Witness ==
    /\ Prefetch
    /\ msgBuffer # <<>>
    /\ \E w \in workers : Len(w.msgs) = opts.MaxBatchSize
    /\ handlerCalls # EmptyBag

\* C8: the prefetch buffer never holds more than BufferSize messages, and
\* a fetcher about to send into a full buffer does not move, except to
\* return once the context is done.
C8_BufferBound ==
    /\ [](Len(msgBuffer) <= opts.Prefetching.BufferSize)
    /\ [][(fpc = "send" /\ Len(msgBuffer) >= opts.Prefetching.BufferSize)
            => \/ fpc' = fpc /\ fmsgs' = fmsgs /\ received' = received
               \/ ctxDone /\ fpc' = "done" /\ msgBuffer' = msgBuffer]_vars

\* C8 witness: the fetcher is blocked on a full buffer.
C8_Witness ==
    /\ fpc = "send"
    /\ Len(msgBuffer) = opts.Prefetching.BufferSize
    /\ ~ctxDone

\* C9: after Run has returned no handler invocation and no Ack call is in
\* progress or still to start.
C9_QuiescentAfterRun ==
    runReturned => (workers = {} /\ dpc \notin {"acquire", "handler", "ack"})

\* C10: after Run has returned no Receive call is issued.
C10_NoReceiveAfterRun ==
    [][runReturned =>
         /\ ~(fpc # "recv" /\ fpc' = "recv")
         /\ ~(dpc # "recv" /\ dpc' = "recv")]_vars

\* C10 witness: Run has returned in a run that received messages and whose
\* workers are still busy.
C10_Witness == runReturned /\ received # <<>> /\ workers # {}

\* Number of sink invocations with these arguments.
SinkCount(msgs, err) == CopiesIn([msgs |-> msgs, err |-> err], sinkCalls)

\* C11: when Run returns an error after the cancellation signal fired, the
\* value is the context's error itself (context.Canceled), not another
\* error. (The claim also excludes nil; the nil of the drained exit is left
\* out here.)
C11_ReturnsCancelReason ==
    (runReturned /\ cancelFired /\ runResult # ErrNil) => runResult = ErrCtx

\* C12: every batch for which the handler returned an error has been passed
\* to the error sink exactly once, with "handler failed: <cause>", in
\* either mode and whether or not the context is cancelled.
C12_HandlerErrorReportedOnce ==
    \A b \in handlerFailed : SinkCount(b, ErrHandler) = 1

\* C13: the error sink has been invoked with (nil, "receiving messages:
\* <cause>") once for every Receive call that failed under a live context;
\* such a failure changes nothing else and sends the loop back to the top,
\* from where it calls Receive again unless the context is done by then.
C13_ReceiveErrorReported ==
    /\ [](SinkCount(<<>>, ErrReceive) = recvErrs.live)
    /\ [][recvErrs'.live # recvErrs.live =>
            /\ recvErrs'.live = recvErrs.live + 1
            /\ IF Prefetch THEN fpc' = "check" ELSE dpc' = "check"
            /\ received' = received /\ msgBuffer' = msgBuffer
            /\ gErr' = gErr /\ groupDone' = groupDone
            /\ batchHist' = batchHist]_vars
    /\ [][(fpc = "check" /\ fpc' # fpc /\ ~ctxDone) => fpc' = "recv"]_vars
    /\ [][(dpc = "check" /\ dpc' # dpc /\ ~ctxDone) => dpc' = "recv"]_vars

\* C13 witness: every injected Receive failure was reported and the whole
\* backlog was received and acked nevertheless, without cancellation.
C13_Witness ==
    /\ recvErrs.live = MaxRecvErrs
    /\ SinkCount(<<>>, ErrReceive) = MaxRecvErrs
    /\ ~cancelFired
    /\ Cardinality(acked) = Backlog

\* C14: every batch whose handler succeeded and whose Ack call failed has
\* been passed to the error sink exactly once, with "acknowledging
\* messages: <cause>"; none of its ids is acked and no second Ack call was
\* issued for it.
C14_AckErrorReportedOnce ==
    \A b \in handlerOK :
        IdList(b) \in ackFailed =>
            /\ SinkCount(b, ErrAck) = 1
            /\ IdsOf(b) \cap acked = {}
            /\ CopiesIn(IdList(b), ackCalls) = 1

\* C15: the processor never issues a Nack call.
C15_NeverNack == nackCalls = EmptyBag

\* C15 witness: Run has returned after cancellation in a run with a handler
\* error, an Ack error and a Receive error.
C15_Witness ==
    /\ runReturned /\ cancelFired
    /\ handlerFailed # {} /\ ackFailed # {} /\ recvErrs.live >= 1

\* C16: while the cancellation signal has not fired no stage has returned
\* an error and neither fetcher nor dispatcher has returned, so Run can only
\* have returned nil; and a step that reports an error to the sink before
\* cancellation leaves every loop running.
C16_ErrorsDoNotEndRun ==
    /\ [](~cancelFired =>
            /\ gErr = ErrNil
            /\ fpc # "done" /\ ppc # "done"
            /\ (runReturned => runResult = ErrNil))
    /\ [][(~cancelFired' /\ sinkCalls' # sinkCalls) =>
            /\ fpc' # "done" /\ ppc' # "done" /\ dpc' # "done"
            /\ ~runReturned']_vars

\* C16 witness: a Receive, a handler and an Ack have failed, the signal has
\* not fired and the loop is in its next Receive call.
C16_Witness ==
    /\ ~cancelFired
    /\ handlerFailed # {} /\ ackFailed # {} /\ recvErrs.live >= 1
    /\ (fpc = "recv" \/ dpc = "recv")

\* C17: in direct mode a successful Ack of a response shorter than
\* MaxBatchSize ends the loop with nil and a full one goes on; the loop ends
\* with nil in no other way (never on an empty response), issues no Receive
\* afterwards, and Run then returns nil.
C17_ShortResponseExit ==
    /\ [][(dpc = "ack" /\ acked' # acked) =>
            IF Len(dmsgs) < opts.MaxBatchSize
              THEN dpc' = "done" /\ gErr' = gErr
              ELSE dpc' = "check"]_vars
    /\ []((dpc = "done" /\ gErr = ErrNil) =>
            /\ dmsgs # <<>>
            /\ Len(dmsgs) < opts.MaxBatchSize
            /\ IdsOf(dmsgs) \subseteq acked)
    /\ [][dpc = "done" => dpc' = "done" /\ received' = received]_vars
    /\ []((runReturned /\ ~Prefetch /\ gErr = ErrNil) => runResult = ErrNil)

\* C17 witness: Run returned nil after a full response and a short one,
\* with messages left at the broker.
C17_Witness ==
    /\ runReturned /\ runResult = ErrNil
    /\ opts.MaxBatchSize = 2
    /\ Len(dmsgs) = 1
    /\ Len(received) = 3

\* C18: in direct mode, in a run without cancellation in which no Receive,
\* handler or Ack call fails and, from some moment on, the broker has
\* delivered N >= 1 messages that are all acked and delivers nothing more,
\* Run eventually returns nil.
C18_DirectDrainReturnsNil ==
    (/\ ~Prefetch
     /\ [](~cancelFired /\ AllSucceeded /\ recvErrs.live = 0)
     /\ <>[](received # <<>> /\ acked = ReceivedIds))
        => <>(runReturned /\ runResult = ErrNil)

C20_RequestWithinFetchBatchSize ==
    \A r \in recvRequests : r.BatchSize <= opts.FetchBatchSize

\* Vocabulary of the claims about NewProcessor.
Called == newResult # <<>>
Result == newResult[1]
ArgsPresent ==
    args.client # "nil" /\ args.consumerGroup # "" /\ args.handler # "nil"
\* The rejected option fields of the call, as the innermost error names them.
Offending ==
    {e \in {[text |-> "MaxBatchSize must be >= 0, got %d",
             got |-> args.opts.MaxBatchSize],
            [text |-> "FetchBatchSize must be >= 0, got %d",
             got |-> args.opts.FetchBatchSize],
            [text |-> "MaxConcurrent must be >= 0, got %d",
             got |-> args.opts.MaxConcurrent]} : e.got < 0}
    \cup {e \in {[text |-> "BufferSize must be > 0, got %d",
                  got |-> args.opts.Prefetching.BufferSize]} :
             args.opts.Prefetching.present /\ e.got <= 0}

\* C21: a call with a negative MaxBatchSize, FetchBatchSize or MaxConcurrent,
\* or with Prefetching present and BufferSize <= 0, returns an error and no
\* processor; when client, consumer group and handler are given, the error
\* is "invalid options: ..." around the message of one rejected field, with
\* that field's value.
C21_InvalidOptionsRejected ==
    (Called /\ Offending # {}) =>
        /\ Result.p = <<>>
        /\ Result.err # NoErr
        /\ ArgsPresent =>
              /\ [text |-> Result.err.text, got |-> Result.err.got]
                    \in Offending
              /\ Result.err.wrap # <<>>
              /\ Result.err.wrap[1] = "invalid options: %w"

\* C21 witness: Prefetching with BufferSize 0, everything else valid, was
\* rejected with the BufferSize message.
C21_Witness ==
    /\ Called /\ ArgsPresent
    /\ args.opts.Prefetching = [present |-> TRUE, BufferSize |-> 0]
    /\ args.opts.MaxBatchSize >= 0 /\ args.opts.FetchBatchSize >= 0
    /\ args.opts.MaxConcurrent >= 0
    /\ Result.p = <<>>
    /\ Result.err.text = "BufferSize must be > 0, got %d"

\* C22: a call with valid arguments returns a processor whose options have
\* MaxBatchSize 1 for 0, FetchBatchSize the effective MaxBatchSize for 0,
\* MaxConcurrent 1 for 0, every other value and Prefetching as given; they
\* are options a run can start from.
C22_Defaults ==
    (Called /\ ArgsPresent /\ Offending = {}) =>
        /\ Result.err = NoErr
        /\ Len(Result.p) = 1
        /\ LET o == args.opts
               e == Result.p[1].opts
           IN  /\ e.MaxBatchSize =
                     IF o.MaxBatchSize = 0 THEN 1 ELSE o.MaxBatchSize
               /\ e.FetchBatchSize =
                     IF o.FetchBatchSize = 0 THEN e.MaxBatchSize
                     ELSE o.FetchBatchSize
               /\ e.MaxConcurrent =
                     IF o.MaxConcurrent = 0 THEN 1 ELSE o.MaxConcurrent
               /\ e.Prefetching = o.Prefetching
               /\ e \in EffectiveOptions
               /\ opts = e

\* C22 witness: all zeros gave 1, 1, 1 and no prefetching.
C22_Witness ==
    /\ Called
    /\ args.opts = [MaxBatchSize |-> 0, FetchBatchSize |-> 0,
                    MaxConcurrent |-> 0,
                    Prefetching |-> [present |-> FALSE, BufferSize |-> 0]]
    /\ Result.err = NoErr
    /\ opts = [MaxBatchSize |-> 1, FetchBatchSize |-> 1, MaxConcurrent |-> 1,
               Prefetching |-> [present |-> FALSE, BufferSize |-> 0]]

\* C23: a nil client, else an empty consumer group, else a nil handler
\* gives that check's error, unwrapped, and no processor, whatever the
\* options are.
C23_ArgumentChecksFirst ==
    (Called /\ ~ArgsPresent) =>
        /\ Result.p = <<>>
        /\ Result.err =
              IF args.client = "nil" THEN Errorf("client cannot be nil", 0)
              ELSE IF args.consumerGroup = ""
                THEN Errorf("consumer group cannot be empty", 0)
              ELSE Errorf("handler cannot be nil", 0)

\* C23 witness: client, group and handler all missing and MaxBatchSize
\* negative: the error is the client's.
C23_Witness ==
    /\ Called
    /\ args.client = "nil" /\ args.consumerGroup = ""
    /\ args.handler = "nil"
    /\ args.opts.MaxBatchSize < 0
    /\ Result.err.text = "client cannot be nil"

\* The sink was invoked with exactly this batch.
ReportedBatch(b) == \E s \in BagToSet(sinkCalls) : s.msgs = b

\* C24: when Run has returned after cancellation, every batch the handler
\* was started with has all its ids acked, or was passed to the error sink
\* and has none of its ids acked.
C24_StartedBatchesSettled ==
    (runReturned /\ cancelFired) =>
        \A b \in BagToSet(handlerCalls) :
            \/ IdsOf(b) \subseteq acked
            \/ ReportedBatch(b) /\ IdsOf(b) \cap acked = {}

\* Every handler and Ack call issued so far has returned.
CallsReturned ==
    /\ BagCardinality(handlerCalls)
          = Cardinality(handlerOK) + Cardinality(handlerFailed)
    /\ \A c \in AckLists : c \in ackFailed \/ Range(c) \subseteq acked

C26_ParallelDispatch ==
    (Prefetch /\ ppc = "acquire" /\ ~ctxDone /\ semCur < opts.MaxConcurrent)
        => ENABLED DispStep

\* C26 witness: MaxConcurrent = 2 handler invocations run at the same time.
C26_Witness ==
    /\ Prefetch
    /\ opts.MaxConcurrent = 2
    /\ Cardinality({w \in workers : w.pc = "handler"}) = 2

\* C27: in prefetch mode the fetcher can take its next step in every state
\* in which it has not returned, whatever dispatcher and workers do, except
\* when it is sending into a full buffer under a live context.
C27_FetchDecoupled ==
    (/\ Prefetch
     /\ fpc \in {"check", "recv", "send"}
     /\ ~(/\ fpc = "send"
          /\ ~ctxDone
          /\ Len(msgBuffer) >= opts.Prefetching.BufferSize))
        => ENABLED FetchStep

\* C27 witness: a Receive is in progress while a handler runs and a
\* message waits in the buffer.
C27_Witness ==
    /\ fpc = "recv"
    /\ msgBuffer # <<>>
    /\ \E w \in workers : w.pc = "handler"

\* The batch of message i failed in the handler or in its Ack call.
FailedFor(i) ==
    \/ \E b \in handlerFailed : i \in IdsOf(b)
    \/ \E c \in ackFailed : i \in Range(c)

\* C28: in prefetch mode, unless the context is cancelled, every message
\* returned by Receive is eventually passed to the handler, and then acked
\* unless its handler or Ack call fails.
C28_ReceivedEventuallyHandled ==
    \A i \in 1..MaxMsgsPrefetch :
        /\ (Prefetch /\ Len(received) >= i)
              ~> (cancelFired \/ i \in HandledIds)
        /\ (Prefetch /\ Len(received) >= i)
              ~> (cancelFired \/ i \in acked \/ FailedFor(i))

\* C28 witness: in a live run every message of the backlog went through
\* one-message batches, one worker at a time, and is acked.
C28_Witness ==
    /\ Prefetch /\ ~cancelFired
    /\ Len(received) = MaxMsgsPrefetch
    /\ ReceivedIds \subseteq acked
    /\ opts.MaxConcurrent = 1 /\ opts.MaxBatchSize = 1

\* C29: once the cancellation signal has fired, Run eventually returns.
C29_CancelEndsRun == cancelFired ~> runReturned

\* C29 witness: Run returned after a cancellation that found the fetcher
\* with messages it could not send and the dispatcher's buffer not empty.
C29_Witness ==
    /\ runReturned /\ cancelFired
    /\ fmsgs # <<>>
    /\ msgBuffer # <<>>

\* Batches handed to workers that still run, and ids of client calls.
WorkerBatches == {w.msgs : w \in workers}
CallIds(calls) == UNION {Range(c) : c \in BagToSet(calls)}

\* C30: no message in the prefetch buffer has been passed to the handler
\* or named in an Ack or Nack call; once the context is done no further
\* batch is handed to a worker, so what is in the buffer then never is; and
\* after Run has returned the buffer is not read any more.
C30_BufferAbandoned ==
    /\ [](IdsOf(msgBuffer)
            \cap (HandledIds \cup CallIds(ackCalls) \cup CallIds(nackCalls)
                    \cup UNION {IdsOf(b) : b \in WorkerBatches}) = {})
    /\ [][ctxDone => WorkerBatches' \subseteq WorkerBatches]_vars
    /\ [][runReturned => msgBuffer' = msgBuffer]_vars

\* C30 witness: Run has returned and a message is left in the buffer.
C30_Witness ==
    /\ Prefetch
    /\ runReturned
    /\ msgBuffer # <<>>
    /\ handlerCalls # EmptyBag

\* The concatenation of a sequence of batches.
RECURSIVE Concat(_)
Concat(bs) == IF bs = <<>> THEN <<>> ELSE Head(bs) \o Concat(Tail(bs))

\* What left the buffer so far, in the order the dispatcher took it: the
\* batches formed, then the batch being assembled.
TakenFromBuffer == Concat(formed) \o batch

\* C31: with prefetching, the batches in the order the dispatcher forms
\* them, put end to end, are a prefix of the Receive responses put end to
\* end (nothing reordered, nothing duplicated, broker order inside every
\* batch), and the handler is invoked with these batches only.
C31_BufferOrder ==
    Prefetch =>
        /\ Len(TakenFromBuffer) <= Len(received)
        /\ TakenFromBuffer = SubSeq(received, 1, Len(TakenFromBuffer))
        /\ \A b \in BagToSet(handlerCalls) : b \in Range(formed)

\* Two responses were received and left the buffer as two batches, both
\* given to the handler.
C31_Witness ==
    /\ Prefetch
    /\ Len(formed) = 2
    /\ Len(received) = 2
    /\ \A i \in 1..2 : BagIn(formed[i], handlerCalls)

\* C32: with prefetching the dispatcher waits on the buffer (the blocking
\* select) only with an empty batch; leaving the filling loop with at
\* least one message it goes to sem.Acquire with the batch as it is, and
\* with a live context and a free permit the batch, full or not, is handed
\* to a worker whatever the buffer holds.
C32_PartialBatchDispatched ==
    /\ [](ppc = "wait" => batch = <<>>)
    /\ [][ppc = "fill" /\ ppc' \notin {"fill", "done"} /\ batch # <<>>
            => ppc' = "acquire" /\ batch' = batch]_vars
    /\ [](ppc = "acquire" /\ ~ctxDone /\ semCur < opts.MaxConcurrent
            => ENABLED DispSpawn)
    /\ [][ppc = "acquire" /\ ppc' = "fill"
            => formed' = Append(formed, batch)]_vars

\* A batch shorter than MaxBatchSize was handed to a worker although the
\* broker had one more message, which arrived afterwards.
C32_Witness ==
    /\ Prefetch
    /\ formed # <<>>
    /\ Len(formed[1]) < opts.MaxBatchSize
    /\ Len(received) > Len(formed[1])
    /\ msgBuffer = <<>> /\ batch # <<>> /\ ppc = "acquire"

\* The batches being processed: the worker goroutines of processFromBuffer
\* and the batch processDirectly is inside processBatch with.
BatchesInProcess ==
    Cardinality(workers) + (IF dpc \in {"handler", "ack"} THEN 1 ELSE 0)

\* A batch has just ended: a worker is gone, or processDirectly is back
\* from processBatch.
BatchEnds ==
    \/ Cardinality(workers') < Cardinality(workers)
    \/ dpc \in {"handler", "ack"} /\ dpc' \notin {"handler", "ack"}

\* C33: the permits held are exactly the batches being processed, and the
\* end of a batch, whether the handler succeeded, the handler failed or the
\* Ack call failed, gives its permit back.
C33_PermitPerBatch ==
    /\ [](semCur = BatchesInProcess)
    /\ [][BatchEnds => semCur' = semCur - 1]_vars

\* Batches ended in each of the three ways and all permits are back.
C33_Witness ==
    /\ handlerFailed # {}
    /\ ackFailed # {}
    /\ acked # {}
    /\ semCur = 0
    /\ BagCardinality(handlerCalls) >= 3

\* Messages returned by Receive and not handed to a worker.
NotYetDispatched == Len(received) - Len(Concat(formed))

\* C34: with prefetching a Receive call is outstanding, or about to be
\* issued, only when nothing of the previous response is left to send; the
\* messages received and not yet handed to a worker are the rest of the
\* one response being sent (at most FetchBatchSize), the buffer (at most
\* BufferSize) and the batch being assembled (at most MaxBatchSize), so
\* never more than BufferSize + FetchBatchSize + MaxBatchSize.
C34_Backpressure ==
    Prefetch =>
        /\ fpc \in {"check", "recv"} => fmsgs = <<>>
        /\ NotYetDispatched = Len(fmsgs) + Len(msgBuffer) + Len(batch)
        /\ Len(fmsgs) <= opts.FetchBatchSize
        /\ Len(msgBuffer) <= opts.Prefetching.BufferSize
        /\ Len(batch) <= opts.MaxBatchSize
        /\ NotYetDispatched <= opts.Prefetching.BufferSize
                                 + opts.FetchBatchSize + opts.MaxBatchSize

\* The fetcher is held back: the buffer is full, the rest of the response
\* waits to be sent and no Receive is issued meanwhile.
C34_Witness ==
    /\ Prefetch
    /\ fpc = "send"
    /\ fmsgs # <<>>
    /\ Len(msgBuffer) = opts.Prefetching.BufferSize
    /\ ~ENABLED FetchRecvOK
    /\ NotYetDispatched = Len(received)

\* A Receive call failed with the context already done.
ReceiveFailsCancelled == recvErrs'.done > recvErrs.done

\* C35: a Receive error that arrives with the context already done ends
\* the loop that issued the call (fetch, processDirectly), the loop returns
\* ctx.Err(), which Run's errgroup keeps unless a stage failed before, and
\* the error sink is not invoked.
C35_CancelledReceiveNotReported ==
    [][ReceiveFailsCancelled =>
          /\ sinkCalls' = sinkCalls
          /\ fpc = "recv" => fpc' = "done"
          /\ dpc = "recv" => dpc' = "done"
          /\ gErr' = IF gErr = ErrNil THEN ErrCtx ELSE gErr
          /\ groupDone']_vars

\* The direct loop ended on a Receive error after cancellation: Run
\* returned ctx.Err() and the sink was never invoked.
C35_Witness ==
    /\ ~Prefetch
    /\ recvErrs.done > 0
    /\ sinkCalls = EmptyBag
    /\ runReturned
    /\ runResult = ErrCtx

\* processBatch has just failed in processDirectly: the handler or the Ack
\* call returned an error.
DirectBatchFails ==
    /\ dpc \in {"handler", "ack"}
    /\ handlerFailed' # handlerFailed \/ ackFailed' # ackFailed

\* processDirectly has just returned nil.
DirectReturnsNil == dpc # "done" /\ dpc' = "done" /\ gErr' = ErrNil

\* C36: without prefetching, a batch that fails (handler or Ack) under a
\* context that is not done is reported to the error sink and the loop goes
\* back to its top, where it issues the next Receive, even when the batch
\* was shorter than MaxBatchSize; the loop returns nil only from a batch
\* that is short and whose Ack call has just succeeded.
C36_FailedBatchContinues ==
    /\ [][DirectBatchFails /\ ~ctxDone =>
             /\ dpc' = "check"
             /\ sinkCalls' # sinkCalls
             /\ ReportedBatch(dmsgs)'
             /\ ~runReturned']_vars
    /\ [][DirectReturnsNil =>
             /\ dpc = "ack"
             /\ IdsOf(dmsgs) \subseteq acked'
             /\ ~(IdsOf(dmsgs) \subseteq acked)
             /\ Len(dmsgs) < opts.MaxBatchSize]_vars

\* A batch shorter than MaxBatchSize failed and was reported, and the loop
\* went on: a later Receive call returned further messages.
C36_Witness ==
    /\ ~Prefetch
    /\ \E s \in BagToSet(sinkCalls) :
          /\ s.msgs # <<>>
          /\ Len(s.msgs) < opts.MaxBatchSize
          /\ \E i \in 1..Len(received) :
                \A m \in Range(s.msgs) : received[i].AckID > m.AckID

RECURSIVE SumOver(_, _)
SumOver(S, f) ==
    IF S = {} THEN 0
    ELSE LET x == CHOOSE y \in S : TRUE
         IN f[x] + SumOver(S \ {x}, f)
Occurrences(i, b) == Cardinality({k \in DOMAIN b : b[k].AckID = i})
TimesHandled(i) ==
    LET calls == BagToSet(handlerCalls)
    IN SumOver(calls, [b \in calls |->
                          Occurrences(i, b) * CopiesIn(b, handlerCalls)])

\* C38: the broker returns every message in one response only (ack_ids of
\* received are distinct); then every handler invocation carries received
\* messages and no message is passed to the handler more than once, with
\* or without prefetching.
C38_HandledAtMostOnce ==
    /\ \A i, j \in DOMAIN received :
          received[i].AckID = received[j].AckID => i = j
    /\ HandledIds \subseteq ReceivedIds
    /\ \A i \in ReceivedIds : TimesHandled(i) <= 1

\* Every message of the backlog was handled, in more than one batch.
C38_Witness ==
    /\ Len(received) = Backlog
    /\ \A i \in ReceivedIds : TimesHandled(i) = 1
    /\ BagCardinality(handlerCalls) >= 2

\* The body is the error envelope { summary: string, validation_errors?:
\* object, code?: string }.
IsErrorEnvelope(body) ==
    /\ body.kind = "object"
    /\ body.summary.t = "string"
    /\ body.validation_errors.t \in {"absent", "object"}
    /\ body.code.t \in {"absent", "string"}

\* request was called and got an HTTP response with status >= 400.
GotErrorStatus ==
    /\ reqResult # <<>>
    /\ response.fail = "none"
    /\ response.status >= 400

\* C39: for a response with status >= 400, request returns a
\* ValidationError carrying the summary, validation_errors and code of the
\* body whenever the body is the error envelope, and otherwise a plain
\* error that includes the status code; it never returns a body together
\* with a nil error.
C39_ErrorResponses ==
    GotErrorStatus =>
        LET r == reqResult[1]
            body == response.body
        IN /\ IF IsErrorEnvelope(body)
                THEN /\ r.err.type = "ValidationError"
                     /\ r.err.Summary = body.summary.v
                     /\ r.err.ValidationErrors =
                           FieldValue(body.validation_errors, "object", NilMap)
                     /\ r.err.Code = FieldValue(body.code, "string", "")
                ELSE /\ r.err.type = "plain"
                     /\ r.err.status = response.status
           /\ r.body.nil
           /\ r.err.type # "nil"

\* A CreateStream call has just returned.
CreateStreamReturns ==
    /\ mockVars' # mockVars
    /\ mockResult' # <<>>
    /\ mockResult'[1].op = "CreateStream"

\* C40: after any sequence of CreateStream and DeleteStream calls, the id
\* a CreateStream call returns is the id of no stream stored when the call
\* was made, every stream stored before is still stored unchanged, and the
\* mock holds exactly one stream more.
C40_CreateNeverOverwrites ==
    [][CreateStreamReturns =>
          /\ mockResult'[1].id \notin DOMAIN streams
          /\ \A id \in DOMAIN streams :
                id \in DOMAIN streams' /\ streams'[id] = streams[id]
          /\ len(streams') = len(streams) + 1]_vars

====
